---- MODULE Spec2Model ----
(***************************************************************************)
(* Model of mpi_fanout.py: a master-worker "fan out" layer over MPI.       *)
(* One process per rank; every process runs a caller that may invoke       *)
(* init(), run_tasks() and exit() of the module.  The two collectives      *)
(* (scatter, gather, both with root 0) are modelled by per-rank FIFO       *)
(* channels: the root's scatter deposits one payload per worker and a      *)
(* worker's scatter call blocks until its payload is there; a worker's     *)
(* gather deposits its reply and the root's gather blocks until every      *)
(* worker's reply is there.  Collectives on one communicator are matched   *)
(* in call order, hence FIFO.                                              *)
(***************************************************************************)
EXTENDS Integers, Sequences, FiniteSets, TLC

\* ---------------------------------------------------------------- bounds
MaxRanks == 2      \* largest communicator size explored
MaxTasks == 2      \* longest task_list handed to run_tasks
MaxBatches == 2    \* run_tasks batches the master starts in one run
PlanMaxRanks == 4  \* largest group size the striping is computed for
PlanMaxTasks == 6  \* longest list the striping is computed for

VARIABLES
    mpi_size,       \* MPI.COMM_WORLD.Get_size(), fixed for the run
    init_called,    \* per process: the module global init_called
    pc,             \* per process: where the process is
    my_tasks,       \* per process: the sublist received from scatter
    my_rvals,       \* per process: results of _process_tasks so far
    scatterChan,    \* per worker: payloads scattered by the root, not yet received
    gatherChan,     \* per worker: replies handed to gather, not yet collected
    task_list,      \* master: the task_list of the current/last run_tasks
    return_values,  \* master: what the last run_tasks returned
    lastCall,       \* per process: the last function of the module it called
    lastOutcome,    \* per process: how that call ended
    finalized,      \* per process: number of MPI.Finalize() calls
    coll,           \* per process: the collectives it has issued, in order
    execBy,         \* history: per flat index of the current batch, the ranks that ran it
    everRaised      \* history: some task's callable has raised in this run

vars == << mpi_size, init_called, pc, my_tasks, my_rvals, scatterChan, gatherChan,
           task_list, return_values, lastCall, lastOutcome, finalized,
           coll, execBy, everRaised >>

Ranks   == 0 .. (mpi_size - 1)
Workers == 1 .. (mpi_size - 1)

\* ------------------------------------------------------------ task objects
\* f: the callable of 02-mpi-fanout-hello-world.py (n**2)
\* g: the callable of 03-mpi-fanout-nefarious.py (raises for n = 0, else n**2)
\* A callable that is slow, or never returns, is a ProcessTask step that is
\* late, or never taken: Spec forces no step, LiveSpec forces every one.
\* class task: func, args (kwds empty)
task(func, arg) == [func |-> func, arg |-> arg]

\* t.func(*t.args, **t.kwds): what calling the task does
Raises(t) == t.func = "g" /\ t.arg = 0
CallValue(t) == t.arg * t.arg

\* [ task(f, n) for n in range(1, m+1) ]
Squares(m) == [i \in 1 .. m |-> task("f", i)]

\* the task lists a caller builds: m tasks computing the squares 1, 4, ..., or
\* the same list with one position holding task(g, 0), which raises
ListsOfLen(m) ==
    { Squares(m) } \cup { [Squares(m) EXCEPT ![k] = task("g", 0)] : k \in 1 .. m }

TaskLists == UNION { ListsOfLen(m) : m \in 0 .. MaxTasks }

\* A task object in flight keeps its identity: the batch (the number of the
\* run_tasks scatter) and the flat index it was submitted at.
Tag(tl, b) == [i \in 1 .. Len(tl) |-> [func |-> tl[i].func, arg |-> tl[i].arg,
                                        batch |-> b, idx |-> i - 1]]

\* ------------------------------------------------------------ python lists
\* s[start::step] for start >= 0, step >= 1
SliceLen(s, start, step) ==
    IF start >= Len(s) THEN 0 ELSE ((Len(s) - start) + step - 1) \div step
Slice(s, start, step) ==
    [k \in 1 .. SliceLen(s, start, step) |-> s[start + (k - 1) * step + 1]]

\* mutant of Tasks2d: contiguous blocks of ceil(len/n) tasks instead of stripes
Tasks2dBlocks(tl, n) ==
    LET k == (Len(tl) + n - 1) \div n
        lo(r) == IF r * k < Len(tl) THEN r * k ELSE Len(tl)
        hi(r) == IF (r + 1) * k < Len(tl) THEN (r + 1) * k ELSE Len(tl)
    IN  [r \in 0 .. (n - 1) |-> [j \in 1 .. (hi(r) - lo(r)) |-> tl[lo(r) + j]]]

\* tasks_2d = [task_list[i::mpi_size] for i in range(mpi_size)]
Tasks2d(tl, n) == [r \in 0 .. (n - 1) |-> Slice(tl, r, n)]

\* rvals_2d[i%mpi_size][i//mpi_size] is a valid index for every i in range(m)
FlattenOk(rvals_2d, m, n) ==
    \A i \in 0 .. (m - 1) : (i \div n) < Len(rvals_2d[i % n])

\* mutant of Flatten: the position inside the sublist is lost, rvals_2d[i%mpi_size][0]
FlattenNoDiv(rvals_2d, m, n) ==
    [k \in 1 .. m |-> rvals_2d[(k - 1) % n][1]]

RECURSIVE ConcatUpTo(_, _)
ConcatUpTo(rvals_2d, r) ==
    IF r < 0 THEN <<>> ELSE ConcatUpTo(rvals_2d, r - 1) \o rvals_2d[r]

\* mutant of Flatten: the sublists are concatenated in rank order, sum(rvals_2d, [])
FlattenConcat(rvals_2d, m, n) == ConcatUpTo(rvals_2d, n - 1)

\* return_values = [rvals_2d[i%mpi_size][i//mpi_size] for i in range(len(task_list))]
Flatten(rvals_2d, m, n) ==
    [k \in 1 .. m |-> rvals_2d[(k - 1) % n][((k - 1) \div n) + 1]]

\* -------------------------------------------------------------- messages
\* scatter payloads: None, or a list of task objects
NoneMsg      == [isNone |-> TRUE,  tasks |-> <<>>]

\* mutant of ListMsg: an empty sublist is sent as None (`sublist or None`)
ListMsgEmptyIsNone(s) == IF s = <<>> THEN NoneMsg ELSE [isNone |-> FALSE, tasks |-> s]

ListMsg(s)   == [isNone |-> FALSE, tasks |-> s]
IsNone(m)    == m.isNone

NumScatters(r) == Cardinality({k \in 1 .. Len(coll[r]) : coll[r][k] = "scatter"})

\* ------------------------------------------------------------------ state
\* Module load (lines 45-47): init_called = False; rank and size are fixed.
Init ==
    /\ mpi_size \in 1 .. MaxRanks
    /\ init_called = [r \in Ranks |-> FALSE]
    /\ pc = [r \in Ranks |-> "main"]
    /\ my_tasks = [r \in Ranks |-> <<>>]
    /\ my_rvals = [r \in Ranks |-> <<>>]
    /\ scatterChan = [r \in Workers |-> <<>>]
    /\ gatherChan = [r \in Workers |-> <<>>]
    /\ task_list = <<>>
    /\ return_values = <<>>
    /\ lastCall = [r \in Ranks |-> "none"]
    /\ lastOutcome = [r \in Ranks |-> "none"]
    /\ finalized = [r \in Ranks |-> 0]
    /\ coll = [r \in Ranks |-> <<>>]
    /\ execBy = <<>>
    /\ everRaised = FALSE

\* An exception leaving a call of the module reaches the caller: control is
\* back in the caller ("main"), which may handle it and call again, or make
\* no further call (the process dies of the exception).
AfterRaise == {"main"}

\* sys.exit(0) raises SystemExit at the master's caller: the process ends
\* ("Exited") unless the caller catches it (try/except, try/finally, an atexit
\* hook) and goes on ("main").  A worker that catches the SystemExit leaving
\* init() can only make calls that its guards refuse (init_called is set, the
\* rank is not 0), it is Stopped either way.
AfterSystemExit == {"Exited", "main"}

\* MPI.Finalize() has been called in process r
Finalized(r) == finalized[r] > 0

\* A collective called after MPI.Finalize() is erroneous for MPI: the build
\* either raises an MPI exception at the caller or aborts the process.
AfterMpiError == {"main", "Exited"}

\* the caller of rank r is between two calls and may make another one
CanCall(r) == pc[r] = "main"

\* mutant of InitGuardFails: the double-call guard is missing
InitGuardMissing(r) == FALSE

\* `if init_called: raise RuntimeError("double call ...")`
InitGuardFails(r) == init_called[r]

\* mutant of NotInitialized: the init_called check is missing
NotInitializedMissing(r) == FALSE

\* `if not init_called: raise RuntimeError(...)` of run_tasks and exit
NotInitialized(r) == ~init_called[r]

\* `assert mpi_rank == 0` of run_tasks and exit
RankAssertFails(r) == r # 0

\* mutant of IsStopSentinel: the sentinel is taken for an (empty) batch
IsStopSentinelNever(m) == FALSE

\* mutant of IsStopSentinel: `if not my_tasks:` (an empty sublist stops the worker)
IsStopSentinelFalsy(m) == IsNone(m) \/ m.tasks = <<>>

\* `if my_tasks is None:` of the worker loop
IsStopSentinel(m) == IsNone(m)

\* ------------------------------------------------------------------ init()
InitCall(r) ==
    /\ CanCall(r)
    /\ lastCall' = [lastCall EXCEPT ![r] = "init"]
    /\ IF InitGuardFails(r)
       THEN /\ lastOutcome' = [lastOutcome EXCEPT ![r] = "RuntimeError"]
            /\ \E nxt \in AfterRaise : pc' = [pc EXCEPT ![r] = nxt]
            /\ UNCHANGED init_called
       ELSE /\ init_called' = [init_called EXCEPT ![r] = TRUE]
            /\ IF r = 0
               THEN /\ lastOutcome' = [lastOutcome EXCEPT ![r] = "returned"]
                    /\ UNCHANGED pc
               ELSE \* main worker loop: blocks in scatter(None, root=0)
                    /\ lastOutcome' = [lastOutcome EXCEPT ![r] = "pending"]
                    /\ pc' = [pc EXCEPT ![r] = "WaitingForBatch"]
    /\ UNCHANGED << mpi_size, my_tasks, my_rvals, scatterChan, gatherChan, task_list,
                    return_values, finalized, coll, execBy, everRaised >>

\* worker loop: scatter returns a payload
WorkerScatter(r) ==
    /\ r \in Workers
    /\ pc[r] = "WaitingForBatch"
    /\ scatterChan[r] # <<>>
    /\ scatterChan' = [scatterChan EXCEPT ![r] = Tail(@)]
    /\ coll' = [coll EXCEPT ![r] = Append(@, "scatter")]
    /\ IF IsStopSentinel(Head(scatterChan[r]))
       THEN \* MPI.Finalize(); sys.exit(0)
            /\ finalized' = [finalized EXCEPT ![r] = @ + 1]
            /\ pc' = [pc EXCEPT ![r] = "Stopped"]
            /\ lastOutcome' = [lastOutcome EXCEPT ![r] = "SystemExit"]
            /\ UNCHANGED << my_tasks, my_rvals >>
       ELSE /\ my_tasks' = [my_tasks EXCEPT ![r] = Head(scatterChan[r]).tasks]
            /\ my_rvals' = [my_rvals EXCEPT ![r] = <<>>]
            /\ pc' = [pc EXCEPT ![r] = "Executing"]
            /\ UNCHANGED << finalized, lastOutcome >>
    /\ UNCHANGED << mpi_size, init_called, gatherChan, task_list, return_values,
                    lastCall, execBy, everRaised >>

\* _process_tasks has evaluated every task of the sublist
ProcessDone(r) == Len(my_rvals[r]) = Len(my_tasks[r])

\* the task _process_tasks evaluates next
NextTask(r) == my_tasks[r][Len(my_rvals[r]) + 1]

\* history: rank r has invoked the callable of task object t
Record(t, r) ==
    IF t.batch = NumScatters(0) /\ (t.idx + 1) \in DOMAIN execBy
    THEN [execBy EXCEPT ![t.idx + 1] = Append(@, r)]
    ELSE execBy

\* _process_tasks, one element of the list comprehension, on the master
\* (inside run_tasks) or on a worker (inside the loop of init)
ProcessTask(r) ==
    /\ r \in Ranks
    /\ pc[r] \in {"rt_process", "Executing"}
    /\ ~ProcessDone(r)
    /\ execBy' = Record(NextTask(r), r)
    /\ IF Raises(NextTask(r))
       THEN \* the exception leaves _process_tasks and the call around it
            /\ everRaised' = TRUE
            /\ lastOutcome' = [lastOutcome EXCEPT ![r] = "Exception"]
            /\ \E nxt \in AfterRaise : pc' = [pc EXCEPT ![r] = nxt]
            /\ my_tasks' = [my_tasks EXCEPT ![r] = <<>>]
            /\ my_rvals' = [my_rvals EXCEPT ![r] = <<>>]
       ELSE /\ my_rvals' = [my_rvals EXCEPT ![r] = Append(@, CallValue(NextTask(r)))]
            /\ UNCHANGED << everRaised, lastOutcome, pc, my_tasks >>
    /\ UNCHANGED << mpi_size, init_called, scatterChan, gatherChan, task_list,
                    return_values, lastCall, finalized, coll >>

\* worker loop: gather(my_rvals, root=0), then back to the scatter
WorkerGather(r) ==
    /\ r \in Workers
    /\ pc[r] = "Executing"
    /\ ProcessDone(r)
    /\ gatherChan' = [gatherChan EXCEPT ![r] = Append(@, my_rvals[r])]
    /\ coll' = [coll EXCEPT ![r] = Append(@, "gather")]
    /\ pc' = [pc EXCEPT ![r] = "WaitingForBatch"]
    /\ my_tasks' = [my_tasks EXCEPT ![r] = <<>>]
    /\ my_rvals' = [my_rvals EXCEPT ![r] = <<>>]
    /\ UNCHANGED << mpi_size, init_called, scatterChan, task_list, return_values,
                    lastCall, lastOutcome, finalized, execBy, everRaised >>

\* ------------------------------------------------------------- run_tasks()
\* the guards of run_tasks fail: no collective is issued
RunTasksRefused(r) ==
    /\ CanCall(r)
    /\ NotInitialized(r) \/ RankAssertFails(r)
    /\ lastCall' = [lastCall EXCEPT ![r] = "run_tasks"]
    /\ lastOutcome' = [lastOutcome EXCEPT ![r] =
                          IF NotInitialized(r) THEN "RuntimeError" ELSE "AssertionError"]
    /\ \E nxt \in AfterRaise : pc' = [pc EXCEPT ![r] = nxt]
    /\ UNCHANGED << mpi_size, init_called, my_tasks, my_rvals, scatterChan, gatherChan,
                    task_list, return_values, finalized, coll, execBy, everRaised >>

\* mutant of ScatterSend: every worker is sent the root's own payload (a bcast)
ScatterSendSame(payloads) ==
    [w \in Workers |-> Append(scatterChan[w], payloads[0])]

\* mutant of ScatterSend: the root keeps its own payload and sends nothing
ScatterSendNothing(payloads) == scatterChan

\* the root's scatter(payloads, root=0): payloads[w] goes to worker w
ScatterSend(payloads) ==
    [w \in Workers |-> Append(scatterChan[w], payloads[w])]

\* run_tasks up to the scatter: stripe task_list, scatter, keep the own sublist
RunTasksCall(r, tl) ==
    /\ CanCall(r)
    /\ ~NotInitialized(r)
    /\ ~RankAssertFails(r)
    /\ ~Finalized(r)
    /\ NumScatters(r) < MaxBatches
    /\ lastCall' = [lastCall EXCEPT ![r] = "run_tasks"]
    /\ lastOutcome' = [lastOutcome EXCEPT ![r] = "pending"]
    /\ task_list' = tl
    /\ return_values' = <<>>
    /\ execBy' = [i \in 1 .. Len(tl) |-> <<>>]
    /\ LET tasks_2d == Tasks2d(Tag(tl, NumScatters(r) + 1), mpi_size)
       IN  /\ scatterChan' = ScatterSend([w \in Ranks |-> ListMsg(tasks_2d[w])])
           /\ my_tasks' = [my_tasks EXCEPT ![r] = tasks_2d[r]]
    /\ my_rvals' = [my_rvals EXCEPT ![r] = <<>>]
    /\ coll' = [coll EXCEPT ![r] = Append(@, "scatter")]
    /\ pc' = [pc EXCEPT ![r] = "rt_process"]
    /\ UNCHANGED << mpi_size, init_called, gatherChan, finalized, everRaised >>

\* run_tasks after MPI.Finalize() (exit() was called and its SystemExit
\* caught): no guard stops the call, the scatter of line 126 is attempted on
\* the finalized library and fails there
RunTasksFinalized(r) ==
    /\ CanCall(r)
    /\ ~NotInitialized(r)
    /\ ~RankAssertFails(r)
    /\ Finalized(r)
    /\ lastCall' = [lastCall EXCEPT ![r] = "run_tasks"]
    /\ lastOutcome' = [lastOutcome EXCEPT ![r] = "MPIError"]
    /\ \E nxt \in AfterMpiError : pc' = [pc EXCEPT ![r] = nxt]
    /\ UNCHANGED << mpi_size, init_called, my_tasks, my_rvals, scatterChan, gatherChan,
                    task_list, return_values, finalized, coll, execBy, everRaised >>

\* what the root's gather(my_rvals, root=0) returns: one entry per rank
Rvals2d == [r \in Ranks |-> IF r = 0 THEN my_rvals[0] ELSE Head(gatherChan[r])]

\* run_tasks from the gather on: collect, flatten, return
MasterGather ==
    /\ pc[0] = "rt_process"
    /\ ProcessDone(0)
    /\ \A w \in Workers : gatherChan[w] # <<>>
    /\ gatherChan' = [w \in Workers |-> Tail(gatherChan[w])]
    /\ coll' = [coll EXCEPT ![0] = Append(@, "gather")]
    /\ my_tasks' = [my_tasks EXCEPT ![0] = <<>>]
    /\ my_rvals' = [my_rvals EXCEPT ![0] = <<>>]
    /\ IF FlattenOk(Rvals2d, Len(task_list), mpi_size)
       THEN /\ return_values' = Flatten(Rvals2d, Len(task_list), mpi_size)
            /\ lastOutcome' = [lastOutcome EXCEPT ![0] = "returned"]
            /\ pc' = [pc EXCEPT ![0] = "main"]
       ELSE \* list index out of range
            /\ lastOutcome' = [lastOutcome EXCEPT ![0] = "IndexError"]
            /\ \E nxt \in AfterRaise : pc' = [pc EXCEPT ![0] = nxt]
            /\ UNCHANGED return_values
    /\ UNCHANGED << mpi_size, init_called, scatterChan, task_list, lastCall,
                    finalized, execBy, everRaised >>

\* ------------------------------------------------------------------ exit()
\* the guards of exit fail: no collective is issued
ExitRefused(r) ==
    /\ CanCall(r)
    /\ NotInitialized(r) \/ RankAssertFails(r)
    /\ lastCall' = [lastCall EXCEPT ![r] = "exit"]
    /\ lastOutcome' = [lastOutcome EXCEPT ![r] =
                          IF NotInitialized(r) THEN "RuntimeError" ELSE "AssertionError"]
    /\ \E nxt \in AfterRaise : pc' = [pc EXCEPT ![r] = nxt]
    /\ UNCHANGED << mpi_size, init_called, my_tasks, my_rvals, scatterChan, gatherChan,
                    task_list, return_values, finalized, coll, execBy, everRaised >>

\* scatter([None]*mpi_size, root=0); MPI.Finalize(); sys.exit(0)
ExitCall(r) ==
    /\ CanCall(r)
    /\ ~NotInitialized(r)
    /\ ~RankAssertFails(r)
    /\ ~Finalized(r)
    /\ lastCall' = [lastCall EXCEPT ![r] = "exit"]
    /\ scatterChan' = ScatterSend([w \in Ranks |-> NoneMsg])
    /\ coll' = [coll EXCEPT ![r] = Append(@, "scatter")]
    /\ finalized' = [finalized EXCEPT ![r] = @ + 1]
    /\ lastOutcome' = [lastOutcome EXCEPT ![r] = "SystemExit"]
    /\ \E nxt \in AfterSystemExit : pc' = [pc EXCEPT ![r] = nxt]
    /\ UNCHANGED << mpi_size, init_called, my_tasks, my_rvals, gatherChan, task_list,
                    return_values, execBy, everRaised >>

\* exit() after MPI.Finalize(): init_called is still set and nothing records
\* the shutdown, the scatter of line 154 is attempted on the finalized library
\* and fails there, before the second MPI.Finalize()
ExitFinalized(r) ==
    /\ CanCall(r)
    /\ ~NotInitialized(r)
    /\ ~RankAssertFails(r)
    /\ Finalized(r)
    /\ lastCall' = [lastCall EXCEPT ![r] = "exit"]
    /\ lastOutcome' = [lastOutcome EXCEPT ![r] = "MPIError"]
    /\ \E nxt \in AfterMpiError : pc' = [pc EXCEPT ![r] = nxt]
    /\ UNCHANGED << mpi_size, init_called, my_tasks, my_rvals, scatterChan, gatherChan,
                    task_list, return_values, finalized, coll, execBy, everRaised >>

\* ------------------------------------------------------------ specification
Next ==
    \/ \E r \in Ranks : InitCall(r)
    \/ \E r \in Ranks : RunTasksRefused(r)
    \/ \E r \in Ranks, tl \in TaskLists : RunTasksCall(r, tl)
    \/ \E r \in Ranks : ProcessTask(r)
    \/ MasterGather
    \/ \E r \in Ranks : ExitRefused(r)
    \/ \E r \in Ranks : ExitCall(r)
    \/ \E r \in Ranks : RunTasksFinalized(r)
    \/ \E r \in Ranks : ExitFinalized(r)
    \/ \E r \in Ranks : WorkerScatter(r)
    \/ \E r \in Ranks : WorkerGather(r)

Spec == Init /\ [][Next]_vars

\* Scheduling: a process that is not blocked in a collective goes on running.
\* The callers' decisions to call init, run_tasks or exit are not forced.
Fairness ==
    /\ \A r \in 0 .. (MaxRanks - 1) :
          /\ WF_vars(ProcessTask(r))
          /\ WF_vars(WorkerScatter(r))
          /\ WF_vars(WorkerGather(r))
    /\ WF_vars(MasterGather)

LiveSpec == Spec /\ Fairness

\* ------------------------------------------------- the striping, on its own
\* Lines 124 and 131 of run_tasks as functions of (task_list, mpi_size): the
\* list is striped into my_tasks, one sublist per rank, and the sublists are
\* flattened back, for every list and group size up to the Plan bounds.
PlanLists == UNION { ListsOfLen(m) : m \in 0 .. PlanMaxTasks }

PlanInit ==
    /\ mpi_size \in 1 .. PlanMaxRanks
    /\ task_list \in PlanLists
    /\ init_called = [r \in Ranks |-> TRUE]
    /\ pc = [r \in Ranks |-> "plan"]
    /\ my_tasks = [r \in Ranks |-> <<>>]
    /\ my_rvals = [r \in Ranks |-> <<>>]
    /\ scatterChan = [r \in Workers |-> <<>>]
    /\ gatherChan = [r \in Workers |-> <<>>]
    /\ return_values = <<>>
    /\ lastCall = [r \in Ranks |-> "none"]
    /\ lastOutcome = [r \in Ranks |-> "none"]
    /\ finalized = [r \in Ranks |-> 0]
    /\ coll = [r \in Ranks |-> <<>>]
    /\ execBy = <<>>
    /\ everRaised = FALSE

\* line 124: tasks_2d, rank r's sublist kept in my_tasks[r]
Stripe ==
    /\ \A r \in Ranks : pc[r] = "plan"
    /\ my_tasks' = Tasks2d(task_list, mpi_size)
    /\ pc' = [r \in Ranks |-> "striped"]
    /\ UNCHANGED << mpi_size, init_called, my_rvals, scatterChan, gatherChan, task_list,
                    return_values, lastCall, lastOutcome, finalized, coll, execBy,
                    everRaised >>

\* line 131 applied to the sublists as they are
Unstripe ==
    /\ \A r \in Ranks : pc[r] = "striped"
    /\ IF FlattenOk(my_tasks, Len(task_list), mpi_size)
       THEN /\ return_values' = Flatten(my_tasks, Len(task_list), mpi_size)
            /\ pc' = [r \in Ranks |-> "unstriped"]
       ELSE /\ UNCHANGED return_values
            /\ pc' = [r \in Ranks |-> "IndexError"]
    /\ UNCHANGED << mpi_size, init_called, my_tasks, my_rvals, scatterChan, gatherChan,
                    task_list, lastCall, lastOutcome, finalized, coll, execBy,
                    everRaised >>

PlanNext == Stripe \/ Unstripe

PlanSpec == PlanInit /\ [][PlanNext]_vars

\* ------------------------------------------------------------------ claims
\* [ t.func(*t.args, **t.kwds) for t in task_list ]
SequentialMap(tl) == [i \in 1 .. Len(tl) |-> CallValue(tl[i])]

\* the master's last call was run_tasks and it has returned a list
RunTasksReturned == lastCall[0] = "run_tasks" /\ lastOutcome[0] = "returned"

\* C1: in a run whose callables return normally, for every group size and
\* every task list, run_tasks called on the initialized master (before any
\* exit()) does not fail and what it returns is the sequential map of the task
\* list, element i the value of task i.
C1_EqualsSequentialMap ==
    (lastCall[0] = "run_tasks" /\ init_called[0] /\ ~Finalized(0) /\ ~everRaised) =>
        /\ lastOutcome[0] \in {"pending", "returned"}
        /\ lastOutcome[0] = "returned" => return_values = SequentialMap(task_list)

C1_Witness ==
    /\ RunTasksReturned /\ ~everRaised
    /\ mpi_size = 2 /\ return_values = <<1, 4>>

C4_NoStopWithoutExit ==
    \A w \in Workers :
        ~Finalized(0) =>
            /\ pc[w] # "Stopped"
            /\ \A k \in 1 .. Len(scatterChan[w]) : ~IsNone(scatterChan[w][k])

C4_Witness ==
    /\ mpi_size = 2 /\ RunTasksReturned /\ pc[0] = "main"
    /\ \A w \in Workers : pc[w] = "WaitingForBatch" /\ scatterChan[w] = <<>>
                          /\ Len(coll[w]) = 2

\* every worker is inside the loop of init() (or has left it by the sentinel)
WorkersInLoop ==
    \A w \in Workers : pc[w] \in {"WaitingForBatch", "Executing", "Stopped"}

AllTerminated ==
    /\ pc[0] = "Exited" /\ finalized[0] = 1
    /\ \A w \in Workers : pc[w] = "Stopped" /\ finalized[w] = 1

\* C3: once the master has called exit() after init() and normally returning
\* batches, with every worker in its loop, every worker receives the sentinel,
\* finalizes and stops, and the master has finalized and terminated.
C3_ExitStopsAll ==
    (pc[0] = "Exited" /\ ~everRaised /\ WorkersInLoop) ~> AllTerminated

C3_Witness ==
    /\ mpi_size = 2 /\ ~everRaised /\ AllTerminated
    /\ Len(coll[0]) = 3 /\ return_values = <<1, 4>>

\* C5: init() returns only on rank 0, and there before any collective; a
\* worker that has called init() is inside the loop or has stopped, and has
\* never got to call run_tasks or exit afterwards.
C5_InitNeverLeavesOnWorker ==
    /\ \A r \in Ranks :
          (lastCall[r] = "init" /\ lastOutcome[r] = "returned") => (r = 0 /\ coll[r] = <<>>)
    /\ \A w \in Workers :
          init_called[w] =>
              /\ pc[w] \in {"WaitingForBatch", "Executing", "Stopped"}
              /\ lastCall[w] = "init"

\* the current batch: where the tasks of task_list went and what they do
OnRank(i, r) == (i - 1) % mpi_size = r
RaisingIndexes == {i \in 1 .. Len(task_list) : Raises(task_list[i])}
FirstBatch == lastCall[0] = "run_tasks" /\ init_called[0] /\ NumScatters(0) = 1

\* the first batch is under way, all workers serve it and exactly one task
\* raises, a task of rank r's sublist
OneRaiserOn(r) ==
    /\ r \in Ranks
    /\ FirstBatch
    /\ Cardinality(RaisingIndexes) = 1
    /\ \A i \in RaisingIndexes : OnRank(i, r)
    /\ \A w \in Workers : init_called[w]

\* C6: when a task raises on a worker rank, the master's run_tasks call
\* eventually completes (raising, or returning) instead of blocking in gather.
C6_WorkerFailureReachesMaster ==
    (\E w \in Workers : OneRaiserOn(w)) ~> (lastOutcome[0] # "pending")

\* the value Python's None is written as in a result list
NoneValue == -1

\* the result list C7 describes: None in the raising slot, the value elsewhere
CapturedResults(tl) ==
    [i \in 1 .. Len(tl) |-> IF Raises(tl[i]) THEN NoneValue ELSE CallValue(tl[i])]

\* C7: a batch in which exactly one task raises ends with run_tasks returning
\* a list as long as the input, None in the raising slot, values elsewhere.
C7_RaisingSlotIsNone ==
    ((\E r \in Ranks : OneRaiserOn(r)) /\ lastOutcome[0] # "pending") =>
        /\ lastOutcome[0] = "returned"
        /\ return_values = CapturedResults(task_list)

\* C8: whichever rank the one raising task is striped to, the master sees
\* the same outcome, the one it sees for its own sublist: run_tasks raises.
C8_UniformOverRanks ==
    \A r \in 0 .. (MaxRanks - 1) : OneRaiserOn(r) ~> (lastOutcome[0] = "Exception")

\* what one step leaves alone when a call is refused at its guard
NoCollectiveNoFinalize ==
    /\ coll' = coll /\ scatterChan' = scatterChan /\ gatherChan' = gatherChan
    /\ finalized' = finalized

\* C9: a call of init() in a process where init_called is set raises
\* RuntimeError, issues no collective and leaves init_called set.
C9_SecondInitFails ==
    [][\A r \in Ranks :
          (InitCall(r) /\ init_called[r]) =>
              /\ lastOutcome'[r] = "RuntimeError"
              /\ init_called'[r]
              /\ pc'[r] = "main"
              /\ NoCollectiveNoFinalize]_vars

C9_Witness ==
    \E r \in Ranks :
        /\ lastCall[r] = "init" /\ lastOutcome[r] = "RuntimeError" /\ init_called[r]
        /\ coll[r] # <<>>

\* a step in which rank r calls run_tasks, resp. exit
RunTasksStep(r) ==
    \/ RunTasksRefused(r)
    \/ RunTasksFinalized(r)
    \/ \E tl \in TaskLists : RunTasksCall(r, tl)
ExitStep(r) == ExitRefused(r) \/ ExitFinalized(r) \/ ExitCall(r)

\* C10: run_tasks() or exit() called where init() was never called raises
\* RuntimeError on any rank, issues no collective and changes no lifecycle state.
C10_CallBeforeInitFails ==
    [][\A r \in Ranks :
          (~init_called[r] /\ (RunTasksStep(r) \/ ExitStep(r))) =>
              /\ lastOutcome'[r] = "RuntimeError"
              /\ init_called' = init_called
              /\ pc' = pc
              /\ NoCollectiveNoFinalize]_vars

C10_Witness ==
    /\ mpi_size = 2
    /\ lastCall[0] = "exit" /\ lastOutcome[0] = "RuntimeError" /\ ~init_called[0]
    /\ lastCall[1] = "run_tasks" /\ lastOutcome[1] = "RuntimeError" /\ ~init_called[1]

\* C11: once exit() has been invoked on the master, a later run_tasks() or
\* exit() call there is refused by a guard with a usage error (RuntimeError,
\* AssertionError) and attempts no scatter, gather or finalize.
C11_CallAfterExitFails ==
    [][(Finalized(0) /\ (RunTasksStep(0) \/ ExitStep(0))) =>
          /\ lastOutcome'[0] \in {"RuntimeError", "AssertionError"}
          /\ NoCollectiveNoFinalize]_vars

\* no callable has raised and every worker is inside the loop of init()
HealthyGroup == ~everRaised /\ WorkersInLoop

\* the master is inside run_tasks, between its scatter and its return
BatchPending ==
    lastCall[0] = "run_tasks" /\ lastOutcome[0] = "pending" /\ pc[0] = "rt_process"

\* the batch of an empty task_list: no rank is sent the sentinel or stops, and
\* when run_tasks has returned it has returned [], every worker has replied
\* and is waiting for the next scatter with nothing left in flight
EmptyBatchServed ==
    (lastCall[0] = "run_tasks" /\ init_called[0] /\ ~Finalized(0)
        /\ task_list = <<>> /\ ~everRaised) =>
        /\ lastOutcome[0] \in {"pending", "returned"}
        /\ \A w \in Workers :
              /\ pc[w] # "Stopped"
              /\ \A k \in 1 .. Len(scatterChan[w]) : scatterChan[w][k] = ListMsg(<<>>)
              /\ \A k \in 1 .. Len(gatherChan[w]) : gatherChan[w][k] = <<>>
              /\ pc[w] = "Executing" => my_tasks[w] = <<>>
        /\ lastOutcome[0] = "returned" =>
              /\ return_values = <<>>
              /\ \A w \in Workers :
                    /\ pc[w] = "WaitingForBatch"
                    /\ scatterChan[w] = <<>> /\ gatherChan[w] = <<>>
                    /\ coll[w] = coll[0]

\* C12: run_tasks([]) is served as a batch: every worker gets an empty list
\* (never the sentinel), replies with an empty list and waits again, and the
\* call returns [] once the workers have replied; on a healthy group every
\* batch without a raising task, the empty one and any later one, returns.
C12_EmptyBatchReturns ==
    /\ []EmptyBatchServed
    /\ (BatchPending /\ HealthyGroup /\ RaisingIndexes = {}) ~> RunTasksReturned

C12_Witness ==
    /\ mpi_size = 2 /\ ~everRaised
    /\ task_list = <<>> /\ return_values = <<>>
    /\ lastCall[0] = "exit" /\ lastOutcome[0] = "SystemExit"
    /\ coll[0] = <<"scatter", "gather", "scatter">>
    /\ pc[1] = "Stopped" /\ coll[1] = <<"scatter", "gather", "scatter">>

\* C13: for every group size N >= 1 and every list of M >= 0 tasks, striping
\* (sublist r = elements r, r+N, r+2N, ...) and then reading flat index i from
\* sublist i mod N at position i div N never runs out of a sublist and gives
\* back the list, same content, same order.
C13_RoundTrip ==
    /\ pc[0] # "IndexError"
    /\ pc[0] \in {"striped", "unstriped"} =>
          /\ FlattenOk(my_tasks, Len(task_list), mpi_size)
          /\ \A r \in Ranks : my_tasks[r] = Slice(task_list, r, mpi_size)
    /\ pc[0] = "unstriped" => return_values = task_list

C13_Witness ==
    /\ pc[0] = "unstriped" /\ mpi_size = 3 /\ Len(task_list) = 5
    /\ return_values = task_list
    /\ Len(my_tasks[0]) = 2 /\ Len(my_tasks[1]) = 2 /\ Len(my_tasks[2]) = 1

\* C14: after striping, any two ranks' sublists differ in length by at most
\* one (so rank 0's is within 1 of every other rank's).
C14_LoadBalanced ==
    pc[0] \in {"striped", "unstriped"} =>
        \A r, q \in Ranks :
            /\ Len(my_tasks[r]) - Len(my_tasks[q]) <= 1
            /\ Len(my_tasks[q]) - Len(my_tasks[r]) <= 1

C14_Witness ==
    /\ pc[0] = "striped" /\ mpi_size = 4 /\ Len(task_list) = 6
    /\ Len(my_tasks[0]) = 2 /\ Len(my_tasks[1]) = 2
    /\ Len(my_tasks[2]) = 1 /\ Len(my_tasks[3]) = 1

\* the gather of the master collects, for some rank, a result list whose
\* length is not the length of the sublist the striping gave that rank
LengthMismatch ==
    \E r \in Ranks : Len(Rvals2d[r]) # SliceLen(task_list, r, mpi_size)

\* C15: whenever a gathered result list is shorter or longer than the sublist
\* striped to its rank, the reassembly in run_tasks fails; run_tasks never
\* returns a result from such a gather.
C15_MismatchFails ==
    [][(MasterGather /\ LengthMismatch) =>
          /\ lastOutcome'[0] = "IndexError"
          /\ return_values' = return_values]_vars

NumGathers(r) == Cardinality({k \in 1 .. Len(coll[r]) : coll[r][k] = "gather"})

\* C16: when run_tasks has returned at the master, every rank has received
\* its sublist of that batch, every task of the batch has been executed (by
\* the rank it was striped to) and every rank has contributed to its gather;
\* so a task that never returns keeps run_tasks from returning.
C16_FullBarrier ==
    RunTasksReturned =>
        /\ \A r \in Ranks :
              /\ NumScatters(r) >= NumScatters(0)
              /\ NumGathers(r) >= NumGathers(0)
        /\ \A i \in 1 .. Len(task_list) :
              /\ i \in DOMAIN execBy
              /\ execBy[i] = << (i - 1) % mpi_size >>

\* one step of worker w, seen from its loop states
WorkerMoves(w) ==
    /\ pc[w] = "WaitingForBatch" =>
          /\ pc'[w] \in {"WaitingForBatch", "Executing", "Stopped"}
          /\ pc'[w] = "Stopped" =>
                /\ scatterChan[w] # <<>> /\ IsNone(Head(scatterChan[w]))
                /\ Finalized(0)
          /\ (scatterChan[w] # <<>> /\ scatterChan'[w] = Tail(scatterChan[w])
                 /\ ~IsNone(Head(scatterChan[w]))) =>
                /\ pc'[w] = "Executing"
                /\ my_tasks'[w] = Head(scatterChan[w]).tasks
    /\ pc[w] = "Executing" =>
          /\ pc'[w] \in {"Executing", "WaitingForBatch"}
          /\ pc'[w] = "WaitingForBatch" =>
                /\ Len(gatherChan'[w]) = Len(gatherChan[w]) + 1
                /\ LET reply == gatherChan'[w][Len(gatherChan'[w])]
                   IN  /\ Len(reply) = Len(my_tasks[w])
                       /\ \A k \in 1 .. Len(reply) : reply[k] = CallValue(my_tasks[w][k])
    /\ pc[w] = "Stopped" => pc'[w] = "Stopped"

\* C17: a worker only moves WaitingForBatch -> Executing -> WaitingForBatch
\* or WaitingForBatch -> Stopped; Stopped only on the sentinel of exit(); a
\* list payload, empty or not, leads to Executing, one gather reply of the
\* length and order of the sublist, and back; Stopped is terminal.
C17_WorkerLoopStates == [][\A w \in Workers : WorkerMoves(w)]_vars

\* MPI.Finalize() at most once per rank, and no collective attempted by a
\* rank that has finalized
FinalizeIsLast ==
    \A r \in Ranks :
        /\ finalized[r] <= 1
        /\ Finalized(r) => lastOutcome[r] # "MPIError"

\* C18: every rank calls finalize at most once and issues no scatter or
\* gather afterwards; once the master has called exit() in a run where every
\* rank called init(), every rank gets to finalize exactly once.
C18_FinalizeOnce ==
    /\ []FinalizeIsLast
    /\ (Finalized(0) /\ \A w \in Workers : init_called[w])
          ~> (\A r \in Ranks : finalized[r] = 1)

\* scatter, gather, scatter, gather, ...
Alternating(s) ==
    \A k \in 1 .. Len(s) : s[k] = IF k % 2 = 1 THEN "scatter" ELSE "gather"

\* a run of init(), normally returning run_tasks calls and at most a final exit()
RegularRun == ~everRaised /\ \A r \in Ranks : lastOutcome[r] # "MPIError"

\* worker w and the master are at matching places of the same sequence
Matched(w) ==
    /\ Alternating(coll[w]) /\ Alternating(coll[0])
    /\ Len(coll[w]) <= Len(coll[0]) + 1
    /\ Len(scatterChan[w]) = NumScatters(0) - NumScatters(w)
    /\ Len(gatherChan[w]) = NumGathers(w) - NumGathers(0)
    /\ \A j \in 1 .. Len(my_tasks[w]) : my_tasks[w][j].batch = NumScatters(w)
    /\ \A k \in 1 .. Len(scatterChan[w]) :
          /\ IsNone(scatterChan[w][k]) => (k = Len(scatterChan[w]) /\ Finalized(0))
          /\ \A j \in 1 .. Len(scatterChan[w][k].tasks) :
                scatterChan[w][k].tasks[j].batch = NumScatters(w) + k

\* C19: in a run of init(), normally returning run_tasks calls and a final
\* exit(), every worker's sequence of collectives and the master's are the
\* same alternation scatter, gather, ..., one a prefix of the other; the
\* worker's k-th scatter receives what the master's k-th scatter sent and
\* the master's k-th gather collects the worker's k-th reply.
C19_CollectivesMatched == RegularRun => \A w \in Workers : Matched(w)

C19_Witness ==
    /\ RegularRun /\ mpi_size = 2
    /\ coll[0] = <<"scatter", "gather", "scatter", "gather", "scatter">>
    /\ coll[1] = coll[0] /\ pc[1] = "Stopped" /\ pc[0] = "Exited"

\* C20: whenever run_tasks has returned normally at the master, every worker
\* has completed its gather of that batch and waits for the next scatter, no
\* reply of the batch is undelivered, no worker is Stopped, and init_called
\* is still set on the master.
C20_WorkersReadyAtReturn ==
    RunTasksReturned =>
        /\ init_called[0]
        /\ \A w \in Workers :
              /\ pc[w] = "WaitingForBatch"
              /\ NumGathers(w) = NumScatters(0)
              /\ gatherChan[w] = <<>>

====
